---- MODULE Spec2Model ----
(***************************************************************************)
(* A model of the multi-tenant orchestration and dispatch engine of the    *)
(* telegram-bot repository: BotManager (tenant map, chat-id index,         *)
(* broadcast), KafkaConsumerService (the queue router), TelegramBotService *)
(* (dispatch and lifecycle) and HandlerRegistry.                           *)
(*                                                                         *)
(* The program runs on one asyncio event loop: the code between two awaits *)
(* of a coroutine is one atomic step, and every await at which the         *)
(* coroutine may be suspended separates two actions of the model.          *)
(***************************************************************************)
EXTENDS Integers, Sequences, FiniteSets, TLC

\* ------------------------------------------------------------------ bounds
MaxTenants == 2
MaxChats == 2
MaxCalls == 2
MaxHandlers == 3
MaxCallbacks == 2
MaxDispatch == 2
MaxListeners == 2
MaxEmits == 2
MaxRouterCalls == 3
MaxEnvelopes == 2
MaxRetry == 2
MaxBatch == 2
MaxPartition == 5
\* the scheduler's limit (1000) and pending_limit (2000), scaled down
SchedulerLimit == 2
PendingLimit == 1

TenantIds == 1..MaxTenants
ChatIds == 1..MaxChats
CallIds == 1..MaxCalls
\* A TelegramBotService constructed by register_bot call k is instance k; the
\* instances a specification starts with are numbered after them.
InstIds == 1..(MaxCalls + MaxTenants)
PreInst(t) == MaxCalls + t
HandlerIds == 1..MaxHandlers
CallbackIds == 1..MaxCallbacks
ListenerIds == 1..MaxListeners
EmitIds == 1..MaxEmits
DispIds == 1..MaxDispatch
RCallIds == 1..MaxRouterCalls
LoopTask == MaxRouterCalls + 1

\* HandlerPriority
HIGH == 80
NORMAL == 50

VARIABLES
  \* BotManager
  bots,              \* _bots: tenant-id -> instance
  chat_bot_mapping,  \* _chat_bot_mapping: chat-id -> set of tenant-ids
  db_active,         \* rows of table chats with is_active = TRUE, as <<bot_id, chat_id>>
  m_lock,            \* BotManager._lock: 0 when free, else the call holding it
  m_waiters,         \* the calls waiting for BotManager._lock, first come first served
  calls,             \* the coroutines of the BotManager API calls
  ncalls             \* how many API calls were made

VARIABLES
  \* HandlerRegistry and the dispatch of one TelegramBotService
  message_handlers,   \* _message_handlers: a list of handlers
  callback_handlers,  \* _callback_handlers
  sorted,             \* _sorted
  disp,               \* the coroutines of _process_message / _process_callback_query
  error_notified      \* handle_error has emitted an error notification on the EventBus

VARIABLES
  \* BotManager.stop_all (one call)
  sa_pc,              \* where the call is
  sa_tasks,           \* the stop_bot coroutines it gathers, by tenant-id
  sa_failed           \* the number of failures it reports

VARIABLES
  \* EventManager of one TelegramBotService
  listeners,          \* _listeners: a list of listeners
  emits               \* the coroutines of emit_startup ... emit_error

VARIABLES
  \* TelegramBotService lifecycle
  state,              \* self.state of every instance
  poll,               \* where every instance's dispatcher is in start_polling
  delivered,          \* whether the dispatcher has handed an update it polled to handle_message
  session_closed,     \* whether bot.session of every instance has been closed
  \* KafkaConsumerService
  k_running,          \* _running
  k_consumer,         \* consumer: "none", "created" (not started yet) or "started"
  k_task,             \* whether _consume_task is set
  k_lock,             \* KafkaConsumerService._lock: 0 when free, else the call of start/stop or the consume task holding it
  k_waiters,          \* the coroutines waiting for it
  rcalls,             \* the coroutines of the start() and stop() calls
  nrcalls,            \* how many were made
  loop_pc,            \* where the consume task is
  loop_cancel,        \* a cancellation of the consume task is requested and not yet delivered
  k_pos,              \* how many envelopes the consumer has yielded
  cur_env,            \* the last envelope yielded
  cur_fed             \* the instances whose dp.feed_update was called with it

VARIABLES
  \* BotManager.broadcast_message (one call) and the aiojobs scheduler
  b_pc,               \* where the call is
  b_args,             \* its bot_ids, batch_size and retry_count
  b_idx,              \* how many of bot_ids the outer loop has taken
  b_bot,              \* its local `bot`, which send_with_retry reads when it runs
  b_chats,            \* its local `chats`
  b_i,                \* the offset of the current batch in chats
  b_todo,             \* the spawn coroutines of the batch that have not run yet
  results,            \* what asyncio.gather has collected for the batch
  total_success,
  total_failed,
  jobs,               \* the jobs of the scheduler, in spawn order
  sched_closed        \* the scheduler was closed

bcastVars == <<b_pc, b_args, b_idx, b_bot, b_chats, b_i, b_todo, results,
               total_success, total_failed, jobs, sched_closed>>
lifeVars == <<state, poll, delivered>>
sessVars == <<session_closed>>
routerVars == <<k_running, k_consumer, k_task, k_lock, k_waiters, rcalls, nrcalls,
                loop_pc, loop_cancel, k_pos, cur_env, cur_fed>>
regVars == <<bots, chat_bot_mapping, db_active, m_lock, m_waiters, calls, ncalls>>
dispVars == <<message_handlers, callback_handlers, sorted, disp, error_notified>>
eventVars == <<listeners, emits>>
stopAllVars == <<sa_pc, sa_tasks, sa_failed>>

vars == <<regVars, dispVars, lifeVars, sessVars, routerVars, bcastVars, eventVars, stopAllVars>>

\* ------------------------------------------------------------ BotManager
NoCall == [op |-> "none", t |-> 0, c |-> 0, active |-> FALSE, pc |-> "idle",
           result |-> "none", snap |-> {}, conc |-> FALSE, bot |-> 0]

InFlight == {k \in CallIds : calls[k].op # "none" /\ calls[k].pc # "done"}

\* conc: whether a call of the same operation for the same tenant was in flight
\* when this one was made
NewCall(op, t, c, active) ==
  [op |-> op, t |-> t, c |-> c, active |-> active, pc |-> "enter",
   result |-> "none", snap |-> {},
   conc |-> \E j \in InFlight : calls[j].op = op /\ calls[j].t = t, bot |-> 0]

\* what is kept of a call that has returned or raised
Done(call, result) ==
  [call EXCEPT !.pc = "done", !.result = result, !.snap = {}]

Put(f, key, val) == [x \in DOMAIN f \cup {key} |-> IF x = key THEN val ELSE f[x]]
Pop(f, key) == [x \in DOMAIN f \ {key} |-> f[x]]

\* asyncio.Lock: acquire takes a free lock with no waiter at once, else queues;
\* release hands the lock to the first waiter.
LockFree == m_lock = 0 /\ m_waiters = <<>>

Release ==
  IF m_waiters = <<>>
  THEN m_lock' = 0 /\ m_waiters' = <<>>
  ELSE m_lock' = Head(m_waiters) /\ m_waiters' = Tail(m_waiters)

Enqueue(k, cs) ==
  /\ calls' = [cs EXCEPT ![k].pc = "wait_lock"]
  /\ m_waiters' = Append(m_waiters, k)
  /\ UNCHANGED <<m_lock, bots, chat_bot_mapping, db_active>>

\* defaultdict(set): reading a missing key yields the empty set
MappingGet(m, c) == IF c \in DOMAIN m THEN m[c] ELSE {}

MappingAdd(m, c, t) == Put(m, c, MappingGet(m, c) \cup {t})

\* discard alone: reading the defaultdict makes the key, which is kept
MappingDiscardKeepsKey(m, c, t) == Put(m, c, MappingGet(m, c) \ {t})

\* discard, then delete the key once its set is empty
MappingDiscard(m, c, t) ==
  IF MappingGet(m, c) \ {t} = {} THEN Pop(m, c) ELSE Put(m, c, MappingGet(m, c) \ {t})

RECURSIVE MappingAddAll(_, _, _)
MappingAddAll(m, cset, t) ==
  IF cset = {} THEN m
  ELSE LET c == CHOOSE x \in cset : TRUE
       IN MappingAddAll(MappingAdd(m, c, t), cset \ {c}, t)

\* the same loop deleting every chat the tenant is in, whoever else is in it
MappingPurgeDropsChats(m, t) ==
  [c \in {x \in DOMAIN m : t \notin m[x]} |-> m[c]]

\* unregister_bot's loop over list(self._chat_bot_mapping.keys())
MappingPurge(m, t) ==
  [c \in {x \in DOMAIN m : m[x] \ {t} # {}} |-> m[c] \ {t}]

RegisterEnter(k, cs) ==
  IF cs[k].t \in DOMAIN bots
  THEN /\ calls' = [cs EXCEPT ![k] = Done(cs[k], "duplicate")]
       /\ Release
       /\ UNCHANGED <<bots, chat_bot_mapping, db_active>>
  ELSE /\ bots' = Put(bots, cs[k].t, k)
       /\ calls' = [cs EXCEPT ![k].pc = "load"]
       /\ m_lock' = k /\ m_waiters' = m_waiters
       /\ UNCHANGED <<chat_bot_mapping, db_active>>

\* unregister_bot inside the lock, up to the await of bot.stop()
UnregisterEnter(k, cs) ==
  IF cs[k].t \in DOMAIN bots
  THEN /\ bots' = Pop(bots, cs[k].t)
       /\ calls' = [cs EXCEPT ![k].pc = "stop", ![k].bot = bots[cs[k].t]]
       /\ m_lock' = k /\ m_waiters' = m_waiters
       /\ UNCHANGED <<chat_bot_mapping, db_active>>
  ELSE /\ calls' = [cs EXCEPT ![k] = Done(cs[k], "ok")]
       /\ Release
       /\ UNCHANGED <<bots, chat_bot_mapping, db_active>>

register_bot(t) ==
  /\ ncalls < MaxCalls
  /\ ncalls' = ncalls + 1
  /\ LET k == ncalls + 1
         cs == [calls EXCEPT ![k] = NewCall("register", t, 0, FALSE)]
     IN IF LockFree THEN RegisterEnter(k, cs) ELSE Enqueue(k, cs)

unregister_bot(t) ==
  /\ ncalls < MaxCalls
  /\ ncalls' = ncalls + 1
  /\ LET k == ncalls + 1
         cs == [calls EXCEPT ![k] = NewCall("unregister", t, 0, FALSE)]
     IN IF LockFree THEN UnregisterEnter(k, cs) ELSE Enqueue(k, cs)

\* a waiter that was handed the lock runs on
LockGranted(k) ==
  /\ calls[k].pc = "wait_lock"
  /\ m_lock = k
  /\ UNCHANGED ncalls
  /\ IF calls[k].op = "register" THEN RegisterEnter(k, calls) ELSE UnregisterEnter(k, calls)

\* ChatRecord.get_active_chats: the SELECT runs while register_bot is suspended
get_active_chats(k) ==
  /\ calls[k].op = "register" /\ calls[k].pc = "load"
  /\ calls' = [calls EXCEPT ![k].pc = "loaded",
                            ![k].snap = {c \in ChatIds : <<calls[k].t, c>> \in db_active}]
  /\ UNCHANGED <<bots, chat_bot_mapping, db_active, m_lock, m_waiters, ncalls>>

\* register_bot resumes with the rows, fills the index and returns the bot
register_bot_loaded(k) ==
  /\ calls[k].op = "register" /\ calls[k].pc = "loaded"
  /\ chat_bot_mapping' = MappingAddAll(chat_bot_mapping, calls[k].snap, calls[k].t)
  /\ calls' = [calls EXCEPT ![k] = Done(calls[k], "ok")]
  /\ Release
  /\ UNCHANGED <<bots, db_active, ncalls>>

\* get_active_chats raises (no pool, a lost connection): register_bot raises
\* out of the lock; the entry made before the await stays
register_bot_load_failed(k) ==
  /\ calls[k].op = "register" /\ calls[k].pc = "load"
  /\ calls' = [calls EXCEPT ![k] = Done(calls[k], "error")]
  /\ Release
  /\ UNCHANGED <<bots, chat_bot_mapping, db_active, ncalls>>

\* bot.stop() has returned, the webhook deleted and the session closed: the
\* index is purged
unregister_bot_stopped(k) ==
  /\ calls[k].op = "unregister" /\ calls[k].pc = "stop"
  /\ session_closed' = [session_closed EXCEPT ![calls[k].bot] = TRUE]
  /\ chat_bot_mapping' = MappingPurge(chat_bot_mapping, calls[k].t)
  /\ calls' = [calls EXCEPT ![k] = Done(calls[k], "ok")]
  /\ Release
  /\ UNCHANGED <<bots, db_active, ncalls>>

\* the same failure raised by bot.stop() to unregister_bot, which it leaves
\* through `async with`: the index is not purged
unregister_bot_stop_raised(k) ==
  /\ calls[k].op = "unregister" /\ calls[k].pc = "stop"
  /\ calls' = [calls EXCEPT ![k] = Done(calls[k], "error")]
  /\ Release
  /\ UNCHANGED <<bots, chat_bot_mapping, db_active, ncalls, session_closed>>

\* bot.stop() has returned after delete_webhook raised: stop() handled the
\* error itself and left the session open; the index is purged
unregister_bot_stop_failed(k) ==
  /\ calls[k].op = "unregister" /\ calls[k].pc = "stop"
  /\ chat_bot_mapping' = MappingPurge(chat_bot_mapping, calls[k].t)
  /\ calls' = [calls EXCEPT ![k] = Done(calls[k], "ok")]
  /\ Release
  /\ UNCHANGED <<bots, db_active, ncalls, session_closed>>

\* update_chat_activity up to the await of chat.save(); it takes no lock
update_chat_activity(t, c, active) ==
  /\ ncalls < MaxCalls
  /\ ncalls' = ncalls + 1
  /\ calls' = [calls EXCEPT ![ncalls + 1] =
                 [NewCall("update", t, c, active) EXCEPT !.pc = "save"]]
  /\ UNCHANGED <<bots, chat_bot_mapping, db_active, m_lock, m_waiters>>

\* ChatRecord.save: INSERT ... ON DUPLICATE KEY UPDATE is_active
ChatRecord_save(k) ==
  /\ calls[k].op = "update" /\ calls[k].pc = "save"
  /\ db_active' = IF calls[k].active
                  THEN db_active \cup {<<calls[k].t, calls[k].c>>}
                  ELSE db_active \ {<<calls[k].t, calls[k].c>>}
  /\ calls' = [calls EXCEPT ![k].pc = "saved"]
  /\ UNCHANGED <<bots, chat_bot_mapping, m_lock, m_waiters, ncalls>>

\* chat.save() raises: update_chat_activity raises before it touches the index
ChatRecord_save_failed(k) ==
  /\ calls[k].op = "update" /\ calls[k].pc = "save"
  /\ calls' = [calls EXCEPT ![k] = Done(calls[k], "error")]
  /\ UNCHANGED <<bots, chat_bot_mapping, db_active, m_lock, m_waiters, ncalls>>

\* the same resumption with a deactivation that deletes the key of the chat
\* whatever its set still holds
update_chat_activity_saved_drops_chat(k) ==
  /\ calls[k].op = "update" /\ calls[k].pc = "saved"
  /\ chat_bot_mapping' =
       IF calls[k].active
       THEN MappingAdd(chat_bot_mapping, calls[k].c, calls[k].t)
       ELSE Pop(chat_bot_mapping, calls[k].c)
  /\ calls' = [calls EXCEPT ![k] = Done(calls[k], "ok")]
  /\ UNCHANGED <<bots, db_active, m_lock, m_waiters, ncalls>>

\* update_chat_activity resumes after the save and updates the index
update_chat_activity_saved(k) ==
  /\ calls[k].op = "update" /\ calls[k].pc = "saved"
  /\ chat_bot_mapping' =
       IF calls[k].active
       THEN MappingAdd(chat_bot_mapping, calls[k].c, calls[k].t)
       ELSE MappingDiscard(chat_bot_mapping, calls[k].c, calls[k].t)
  /\ calls' = [calls EXCEPT ![k] = Done(calls[k], "ok")]
  /\ UNCHANGED <<bots, db_active, m_lock, m_waiters, ncalls>>

RegInit ==
  /\ bots = <<>>
  /\ chat_bot_mapping = <<>>
  /\ db_active = {}
  /\ m_lock = 0
  /\ m_waiters = <<>>
  /\ calls = [k \in CallIds |-> NoCall]
  /\ ncalls = 0

\* ------------------------------------- HandlerRegistry and the dispatch
\* The message handlers are objects 1..MaxHandlers, the callback handlers objects
\* 1..MaxCallbacks; an object is registered once at a time.
\* handler.metadata.priority:
Priority(h) == IF h % 3 = 2 THEN HIGH ELSE NORMAL

Remove(seq, i) == [j \in 1..(Len(seq) - 1) |-> IF j < i THEN seq[j] ELSE seq[j + 1]]

IndexOf(seq, h) == CHOOSE i \in 1..Len(seq) : seq[i] = h /\ \A j \in 1..(i - 1) : seq[j] # h

\* list.remove: the first occurrence
ListRemove(seq, h) == Remove(seq, IndexOf(seq, h))

\* a sort that is not stable: h goes in front of the handlers of its priority
InsertByPriorityUnstable(seq, h) ==
  LET n == Cardinality({i \in 1..Len(seq) : Priority(seq[i]) > Priority(h)})
  IN SubSeq(seq, 1, n) \o <<h>> \o SubSeq(seq, n + 1, Len(seq))

\* list.sort(key=priority, reverse=True): stable, so handlers of one priority
\* keep their order. h goes behind every handler of a priority not below its own.
InsertByPriority(seq, h) ==
  LET n == Cardinality({i \in 1..Len(seq) : Priority(seq[i]) >= Priority(h)})
  IN SubSeq(seq, 1, n) \o <<h>> \o SubSeq(seq, n + 1, Len(seq))

RECURSIVE SortByPriority(_)
SortByPriority(seq) ==
  IF seq = <<>> THEN <<>>
  ELSE InsertByPriority(SortByPriority(SubSeq(seq, 1, Len(seq) - 1)), seq[Len(seq)])

Range(seq) == {seq[i] : i \in 1..Len(seq)}

\* invoked: how many times this dispatch called a handler's handle;
\* errors: how many error notifications it emitted
NoDispatch == [pc |-> "idle", kind |-> "none", it |-> 0, cur |-> 0,
               invoked |-> 0, errors |-> 0]

register_message_handler(h) ==
  /\ h \notin Range(message_handlers)
  /\ message_handlers' = Append(message_handlers, h)
  /\ sorted' = FALSE
  /\ UNCHANGED <<callback_handlers, disp, error_notified>>

register_callback_handler(h) ==
  /\ h \notin Range(callback_handlers)
  /\ callback_handlers' = Append(callback_handlers, h)
  /\ UNCHANGED <<message_handlers, sorted, disp, error_notified>>

unregister_message_handler(h) ==
  /\ h \in Range(message_handlers)
  /\ message_handlers' = ListRemove(message_handlers, h)
  /\ UNCHANGED <<callback_handlers, sorted, disp, error_notified>>

unregister_callback_handler(h) ==
  /\ h \in Range(callback_handlers)
  /\ callback_handlers' = ListRemove(callback_handlers, h)
  /\ UNCHANGED <<message_handlers, sorted, disp, error_notified>>

\* get_message_handlers sorts the list in place when it is not marked sorted
get_message_handlers == IF sorted THEN message_handlers ELSE SortByPriority(message_handlers)

\* the list a dispatch iterates is the registry's own list object
Handlers(kind, msgs, cbs) == IF kind = "message" THEN msgs ELSE cbs

\* (a coroutine that has returned leaves nothing behind)
\* `for handler in handlers`: the list iterator yields the element at its index
\* in the list as it is now, and ends when the index is past the end; then
\* the coroutine awaits handler.can_handle
LoopNext(d, ds, list) ==
  IF ds[d].it < Len(list)
  THEN disp' = [ds EXCEPT ![d].pc = "can_handle", ![d].cur = list[ds[d].it + 1],
                          ![d].it = ds[d].it + 1]
  ELSE disp' = [ds EXCEPT ![d] = NoDispatch]

\* _process_message up to its first await
process_message(d) ==
  /\ disp[d].pc = "idle"
  /\ message_handlers' = get_message_handlers
  /\ sorted' = TRUE
  /\ LoopNext(d, [disp EXCEPT ![d] = [NoDispatch EXCEPT !.kind = "message"]],
              get_message_handlers)
  /\ UNCHANGED <<callback_handlers, error_notified>>

\* _process_callback_query up to its first await
process_callback_query(d) ==
  /\ disp[d].pc = "idle"
  /\ LoopNext(d, [disp EXCEPT ![d] = [NoDispatch EXCEPT !.kind = "callback"]],
              callback_handlers)
  /\ UNCHANGED <<message_handlers, callback_handlers, sorted, error_notified>>

\* the same return with an unmatched event treated as an error: when the last
\* can_handle returns False the error notification is emitted
can_handle_returns_unmatched_is_error(d, accepts) ==
  /\ disp[d].pc = "can_handle"
  /\ IF accepts
     THEN /\ disp' = [disp EXCEPT ![d].pc = "handle",
                                  ![d].invoked = disp[d].invoked + 1]
          /\ UNCHANGED error_notified
     ELSE /\ LoopNext(d, disp, Handlers(disp[d].kind, message_handlers, callback_handlers))
          /\ error_notified' =
               (error_notified
                  \/ disp[d].it >= Len(Handlers(disp[d].kind, message_handlers,
                                                callback_handlers)))
  /\ UNCHANGED <<message_handlers, callback_handlers, sorted>>

\* can_handle returns: on True handler.handle is called and awaited, on False
\* the loop goes on
can_handle_returns(d, accepts) ==
  /\ disp[d].pc = "can_handle"
  /\ IF accepts
     THEN disp' = [disp EXCEPT ![d].pc = "handle",
                               ![d].invoked = disp[d].invoked + 1]
     ELSE LoopNext(d, disp, Handlers(disp[d].kind, message_handlers, callback_handlers))
  /\ UNCHANGED <<message_handlers, callback_handlers, sorted, error_notified>>

\* handle returns: break
handle_returns(d) ==
  /\ disp[d].pc = "handle"
  /\ disp' = [disp EXCEPT ![d] = NoDispatch]
  /\ UNCHANGED <<message_handlers, callback_handlers, sorted, error_notified>>

\* the same raise without the try/except of the loop: the exception leaves
\* the dispatch coroutine and reaches the transport
handler_raises_propagates(d) ==
  /\ disp[d].pc \in {"can_handle", "handle"}
  /\ disp' = [disp EXCEPT ![d].pc = "raised"]
  /\ UNCHANGED <<message_handlers, callback_handlers, sorted, error_notified>>

\* can_handle or handle raises: the except clause awaits handle_error, which
\* emits the error notification and returns into the for loop, which takes the
\* next handler
handler_raises(d) ==
  /\ disp[d].pc \in {"can_handle", "handle"}
  /\ LoopNext(d, [disp EXCEPT ![d].errors = disp[d].errors + 1],
              Handlers(disp[d].kind, message_handlers, callback_handlers))
  /\ error_notified' = TRUE
  /\ UNCHANGED <<message_handlers, callback_handlers, sorted>>

\* a call of get_message_handlers(): the list is sorted in place when it has
\* to be, and returned
get_message_handlers_called ==
  /\ message_handlers' = get_message_handlers
  /\ sorted' = TRUE
  /\ UNCHANGED <<callback_handlers, disp, error_notified>>

DispInit ==
  /\ message_handlers = <<>>
  /\ callback_handlers = <<>>
  /\ sorted = FALSE
  /\ disp = [d \in DispIds |-> NoDispatch]
  /\ error_notified = FALSE

\* --------------------------------------------------------- EventManager
\* Listeners are the objects 1..MaxListeners; an object is subscribed once at
\* a time. The five emit methods have one body: `for listener in
\* self._listeners: try: await listener.on_<event>(...) except Exception as e:
\* await self._handle_listener_error(...)`.
EventKinds == {"startup", "shutdown", "message_received", "message_sent", "error"}

\* it: the index of the list iterator; subs: _listeners when the emit was
\* called; called: the listeners the emit has invoked, in order; raised:
\* the positions in called of those that raised; stable: no add_listener or remove_listener
\* ran while the emit was in progress
NoEmit == [pc |-> "idle", event |-> "none", it |-> 0, subs |-> <<>>,
           called |-> <<>>, raised |-> {}, stable |-> TRUE]

\* `for listener in self._listeners`: the element at the iterator's index in the
\* list as it is now; past the end the emit returns to its caller
EmitNext(e, es) ==
  IF es[e].it < Len(listeners)
  THEN emits' = [es EXCEPT ![e].pc = "listener", ![e].it = es[e].it + 1,
                           ![e].called = Append(es[e].called, listeners[es[e].it + 1])]
  ELSE emits' = [es EXCEPT ![e].pc = "returned"]

Touched(es) == [e \in EmitIds |-> IF es[e].pc = "listener"
                                  THEN [es[e] EXCEPT !.stable = FALSE] ELSE es[e]]

add_listener(l) ==
  /\ l \notin Range(listeners)
  /\ listeners' = Append(listeners, l)
  /\ emits' = Touched(emits)

remove_listener(l) ==
  /\ l \in Range(listeners)
  /\ listeners' = ListRemove(listeners, l)
  /\ emits' = Touched(emits)

\* emit_<event> up to its first await
emit(e, event) ==
  /\ emits[e].pc \in {"idle", "returned"}
  /\ EmitNext(e, [emits EXCEPT ![e] = [NoEmit EXCEPT !.event = event, !.subs = listeners]])
  /\ UNCHANGED listeners

\* listener.on_<event> returns
listener_returns(e) ==
  /\ emits[e].pc = "listener"
  /\ EmitNext(e, emits)
  /\ UNCHANGED listeners

\* the same raise without the try/except: the exception leaves the emit
listener_raises_propagates(e) ==
  /\ emits[e].pc = "listener"
  /\ emits' = [emits EXCEPT ![e].pc = "raised"]
  /\ UNCHANGED listeners

\* listener.on_<event> raises: the except clause awaits _handle_listener_error,
\* which logs, and the for loop takes the next listener
listener_raises(e) ==
  /\ emits[e].pc = "listener"
  /\ EmitNext(e, [emits EXCEPT ![e].raised = emits[e].raised \cup {emits[e].it}])
  /\ UNCHANGED listeners

EventsInit ==
  /\ listeners = <<>>
  /\ emits = [e \in EmitIds |-> NoEmit]

\* ------------------------------------------------- KafkaConsumerService
\* An envelope is the deserialized message value: bot_id is a tenant-id or 0
\* for a missing one; update is "ok", "missing" or "malformed" (one that
\* types.Update(**update_data) rejects).
Envelopes == [bot_id : TenantIds \cup {0}, update : {"ok", "missing", "malformed"}]
NoEnvelope == [bot_id |-> 0, update |-> "none"]

NoRCall == [op |-> "none", pc |-> "idle"]

KLockFree == k_lock = 0 /\ k_waiters = <<>>

KRelease ==
  IF k_waiters = <<>>
  THEN k_lock' = 0 /\ k_waiters' = <<>>
  ELSE k_lock' = Head(k_waiters) /\ k_waiters' = Tail(k_waiters)

KKeep(who) == k_lock' = who /\ k_waiters' = k_waiters

\* _process_message: the instances data is fed to
ProcessMessageFeedsAny(data) ==
  IF data.update = "ok" /\ DOMAIN bots # {} THEN {bots[CHOOSE t \in DOMAIN bots : TRUE]} ELSE {}

ProcessMessageNoLookup(data) ==
  IF data.bot_id = 0 \/ data.update # "ok" THEN {}
  ELSE {PreInst(data.bot_id)}

ProcessMessage(data) ==
  IF data.bot_id = 0 THEN {}                       \* "Missing bot_id in message"
  ELSE IF data.bot_id \notin DOMAIN bots THEN {}   \* "Bot ... not found"
  ELSE IF data.update = "missing" THEN {}          \* "Missing update data in message"
  ELSE IF data.update = "malformed" THEN {}        \* types.Update raises, caught
  ELSE {bots[data.bot_id]}

\* start() inside the lock, up to the await of consumer.start()
StartEnter(r, rs) ==
  IF k_running
  THEN /\ rcalls' = [rs EXCEPT ![r].pc = "done"]
       /\ KRelease
       /\ UNCHANGED <<k_running, k_consumer, k_task, loop_pc, loop_cancel>>
  ELSE /\ k_consumer' = "created"
       /\ rcalls' = [rs EXCEPT ![r].pc = "await_start"]
       /\ KKeep(r)
       /\ UNCHANGED <<k_running, k_task, loop_pc, loop_cancel>>

\* stop() inside the lock, up to the await of the consume task; Task.cancel()
\* only requests the cancellation, the task meets it when it runs next
StopEnter(r, rs) ==
  IF ~k_running
  THEN /\ rcalls' = [rs EXCEPT ![r].pc = "done"]
       /\ KRelease
       /\ UNCHANGED <<k_running, k_consumer, k_task, loop_pc, loop_cancel>>
  ELSE /\ k_running' = FALSE
       /\ loop_cancel' = IF k_task /\ loop_pc # "done" THEN TRUE ELSE loop_cancel
       /\ rcalls' = [rs EXCEPT ![r].pc = IF k_task THEN "await_task" ELSE "task_none"]
       /\ KKeep(r)
       /\ UNCHANGED <<k_consumer, k_task, loop_pc>>

router_start ==
  /\ nrcalls < MaxRouterCalls
  /\ nrcalls' = nrcalls + 1
  /\ LET r == nrcalls + 1
         rs == [rcalls EXCEPT ![r] = [op |-> "start", pc |-> "enter"]]
     IN IF KLockFree THEN StartEnter(r, rs)
        ELSE /\ rcalls' = [rs EXCEPT ![r].pc = "wait_lock"]
             /\ k_waiters' = Append(k_waiters, r)
             /\ UNCHANGED <<k_lock, k_running, k_consumer, k_task, loop_pc, loop_cancel>>
  /\ UNCHANGED <<k_pos, cur_env, cur_fed>>

router_stop ==
  /\ nrcalls < MaxRouterCalls
  /\ nrcalls' = nrcalls + 1
  /\ LET r == nrcalls + 1
         rs == [rcalls EXCEPT ![r] = [op |-> "stop", pc |-> "enter"]]
     IN IF KLockFree THEN StopEnter(r, rs)
        ELSE /\ rcalls' = [rs EXCEPT ![r].pc = "wait_lock"]
             /\ k_waiters' = Append(k_waiters, r)
             /\ UNCHANGED <<k_lock, k_running, k_consumer, k_task, loop_pc, loop_cancel>>
  /\ UNCHANGED <<k_pos, cur_env, cur_fed>>

\* a start() or stop() that waited for the lock is handed it
router_lock_granted(r) ==
  /\ rcalls[r].pc = "wait_lock"
  /\ k_lock = r
  /\ IF rcalls[r].op = "start" THEN StartEnter(r, rcalls) ELSE StopEnter(r, rcalls)
  /\ UNCHANGED <<nrcalls, k_pos, cur_env, cur_fed>>

\* consumer.start() returns: _running is set and the consume task created
consumer_started(r) ==
  /\ rcalls[r].pc = "await_start"
  /\ k_consumer' = "started"
  /\ k_running' = TRUE
  /\ k_task' = TRUE
  /\ loop_pc' = "created"
  /\ loop_cancel' = FALSE
  /\ rcalls' = [rcalls EXCEPT ![r].pc = "done"]
  /\ KRelease
  /\ UNCHANGED <<nrcalls, k_pos, cur_env, cur_fed>>

\* consumer.start() raises: start() raises out of the lock
consumer_start_failed(r) ==
  /\ rcalls[r].pc = "await_start"
  /\ rcalls' = [rcalls EXCEPT ![r].pc = "done"]
  /\ KRelease
  /\ UNCHANGED <<k_running, k_consumer, k_task, loop_pc, loop_cancel, nrcalls,
                 k_pos, cur_env, cur_fed>>

\* stop(): `await self._consume_task` returns once the task is done; then
\* _consume_task = None and consumer.stop() is awaited
stop_task_awaited(r) ==
  /\ \/ rcalls[r].pc = "await_task" /\ loop_pc = "done"
     \/ rcalls[r].pc = "task_none"
  /\ k_task' = FALSE
  /\ IF k_consumer # "none"
     THEN /\ rcalls' = [rcalls EXCEPT ![r].pc = "await_stop"]
          /\ KKeep(r)
     ELSE /\ rcalls' = [rcalls EXCEPT ![r].pc = "done"]
          /\ KRelease
  /\ UNCHANGED <<k_running, k_consumer, loop_pc, loop_cancel, nrcalls, k_pos, cur_env, cur_fed>>

\* stop(): consumer.stop() returns
stop_consumer_stopped(r) ==
  /\ rcalls[r].pc = "await_stop"
  /\ k_consumer' = "none"
  /\ rcalls' = [rcalls EXCEPT ![r].pc = "done"]
  /\ KRelease
  /\ UNCHANGED <<k_running, k_task, loop_pc, loop_cancel, nrcalls, k_pos, cur_env, cur_fed>>

\* _consume_loop's finally: `await self.stop()` run by the consume task itself
LoopStopEnter ==
  IF ~k_running
  THEN /\ loop_pc' = "done"
       /\ loop_cancel' = FALSE
       /\ KRelease
       /\ UNCHANGED k_running
  ELSE /\ k_running' = FALSE
       /\ loop_cancel' = TRUE        \* the task cancels itself, then awaits itself
       /\ loop_pc' = "fin_await_self"
       /\ KKeep(LoopTask)

LoopFinally ==
  IF KLockFree THEN LoopStopEnter
  ELSE /\ loop_pc' = "fin_wait_lock"
       /\ k_waiters' = Append(k_waiters, LoopTask)
       /\ UNCHANGED <<k_lock, k_running, loop_cancel>>

\* the consume task runs for the first time, up to the await in `async for`
loop_begins ==
  /\ loop_pc = "created" /\ ~loop_cancel
  /\ loop_pc' = "next"
  /\ UNCHANGED <<k_running, k_consumer, k_task, k_lock, k_waiters, rcalls, nrcalls,
                 loop_cancel, k_pos, cur_env, cur_fed>>

\* a task cancelled before it ever ran ends without running its coroutine,
\* finally included
loop_cancelled_unstarted ==
  /\ loop_pc = "created" /\ loop_cancel
  /\ loop_pc' = "done"
  /\ loop_cancel' = FALSE
  /\ UNCHANGED <<k_running, k_consumer, k_task, k_lock, k_waiters, rcalls, nrcalls,
                 k_pos, cur_env, cur_fed>>

\* the consumer yields an envelope to `async for`: the loop breaks when not
\* _running, else _process_message runs up to the await of feed_update
consume(data) ==
  /\ loop_pc = "next" /\ ~loop_cancel
  /\ k_consumer = "started"
  /\ k_pos < MaxEnvelopes
  /\ k_pos' = k_pos + 1
  /\ cur_env' = data
  /\ IF ~k_running
     THEN /\ cur_fed' = {}
          /\ LoopFinally
     ELSE /\ cur_fed' = ProcessMessage(data)
          /\ loop_pc' = IF ProcessMessage(data) = {} THEN "next" ELSE "feed"
          /\ UNCHANGED <<k_lock, k_waiters, k_running, loop_cancel>>
  /\ UNCHANGED <<k_consumer, k_task, rcalls, nrcalls>>

\* feed_update returns or raises an Exception, which _process_message logs
feed_update_returns ==
  /\ loop_pc = "feed" /\ ~loop_cancel
  /\ loop_pc' = "next"
  /\ UNCHANGED <<k_running, k_consumer, k_task, k_lock, k_waiters, rcalls, nrcalls,
                 loop_cancel, k_pos, cur_env, cur_fed>>

\* the consumer's iterator raises or ends: the loop is left through finally
consumer_fails ==
  /\ loop_pc = "next" /\ ~loop_cancel
  /\ k_consumer = "started"
  /\ LoopFinally
  /\ UNCHANGED <<k_consumer, k_task, rcalls, nrcalls, k_pos, cur_env, cur_fed>>

\* the consume task runs next with a cancellation requested: CancelledError is
\* raised at its await, caught by `except asyncio.CancelledError`, and finally runs
loop_cancelled ==
  /\ loop_pc \in {"next", "feed"} /\ loop_cancel
  /\ IF KLockFree
     THEN LoopStopEnter
     ELSE /\ loop_pc' = "fin_wait_lock"
          /\ k_waiters' = Append(k_waiters, LoopTask)
          /\ loop_cancel' = FALSE
          /\ UNCHANGED <<k_lock, k_running>>
  /\ UNCHANGED <<k_consumer, k_task, rcalls, nrcalls, k_pos, cur_env, cur_fed>>

\* the consume task is handed the lock it waited for in finally
loop_lock_granted ==
  /\ loop_pc = "fin_wait_lock"
  /\ k_lock = LoopTask
  /\ LoopStopEnter
  /\ UNCHANGED <<k_consumer, k_task, rcalls, nrcalls, k_pos, cur_env, cur_fed>>

\* the task's await of itself ends at once with CancelledError, which stop()
\* passes; _consume_task = None and consumer.stop() is awaited
loop_self_awaited ==
  /\ loop_pc = "fin_await_self"
  /\ loop_cancel' = FALSE
  /\ k_task' = FALSE
  /\ IF k_consumer # "none"
     THEN loop_pc' = "fin_await_stop" /\ KKeep(LoopTask)
     ELSE loop_pc' = "done" /\ KRelease
  /\ UNCHANGED <<k_running, k_consumer, rcalls, nrcalls, k_pos, cur_env, cur_fed>>

loop_consumer_stopped ==
  /\ loop_pc = "fin_await_stop"
  /\ k_consumer' = "none"
  /\ loop_pc' = "done"
  /\ KRelease
  /\ UNCHANGED <<k_running, k_task, loop_cancel, rcalls, nrcalls, k_pos, cur_env, cur_fed>>

RouterInit ==
  /\ k_running = FALSE
  /\ k_consumer = "none"
  /\ k_task = FALSE
  /\ k_lock = 0
  /\ k_waiters = <<>>
  /\ rcalls = [r \in RCallIds |-> NoRCall]
  /\ nrcalls = 0
  /\ loop_pc = "none"
  /\ loop_cancel = FALSE
  /\ k_pos = 0
  /\ cur_env = NoEnvelope
  /\ cur_fed = {}

\* -------------------------------------------- TelegramBotService lifecycle
\* poll[i] is where instance i's Dispatcher.start_polling is: "none" (never
\* called), "get_me" (emit_startup running _on_startup), "polling",
\* "emit_shutdown" (_on_shutdown running) or "ended".
BotStates == {"idle", "starting", "running", "stopping", "stopped", "error"}

\* start_polling: the dispatcher emits startup, _on_startup runs to its await
start_polling(i) ==
  /\ poll[i] \in {"none", "ended"}
  /\ state' = [state EXCEPT ![i] = "starting"]
  /\ poll' = [poll EXCEPT ![i] = "get_me"]
  /\ UNCHANGED <<delivered, session_closed>>

\* _on_startup: bot.get_me() returns, the startup listeners are notified
get_me_returns(i) ==
  /\ poll[i] = "get_me"
  /\ state' = [state EXCEPT ![i] = "running"]
  /\ poll' = [poll EXCEPT ![i] = "polling"]
  /\ UNCHANGED <<delivered, session_closed>>

\* _on_startup: bot.get_me() raises; the error is handled there, so the
\* dispatcher goes on to poll
get_me_fails(i) ==
  /\ poll[i] = "get_me"
  /\ state' = [state EXCEPT ![i] = "error"]
  /\ poll' = [poll EXCEPT ![i] = "polling"]
  /\ UNCHANGED <<delivered, session_closed>>

\* polling ends (a signal, stop_polling): the dispatcher emits shutdown,
\* _on_shutdown runs to its await
polling_stops(i) ==
  /\ poll[i] = "polling"
  /\ state' = [state EXCEPT ![i] = "stopping"]
  /\ poll' = [poll EXCEPT ![i] = "emit_shutdown"]
  /\ UNCHANGED <<delivered, session_closed>>

\* _on_shutdown: the shutdown listeners were notified
shutdown_emitted(i) ==
  /\ poll[i] = "emit_shutdown"
  /\ state' = [state EXCEPT ![i] = "stopped"]
  /\ poll' = [poll EXCEPT ![i] = "ended"]
  /\ UNCHANGED <<delivered, session_closed>>

\* the dispatcher hands an update of its polling to handle_message
polling_update(i) ==
  /\ poll[i] = "polling"
  /\ delivered' = [delivered EXCEPT ![i] = TRUE]
  /\ UNCHANGED <<state, poll, session_closed>>

\* stop(): delete_webhook and session.close() return
stop(i) ==
  /\ session_closed' = [session_closed EXCEPT ![i] = TRUE]
  /\ UNCHANGED <<state, poll, delivered>>

\* stop(): delete_webhook raises; the except clause awaits handle_error and
\* stop() returns, the session left as it was
stop_delete_webhook_raises(i) ==
  /\ UNCHANGED <<state, poll, delivered, session_closed>>

LifeInit ==
  /\ state = [i \in InstIds |-> "idle"]
  /\ poll = [i \in InstIds |-> "none"]
  /\ delivered = [i \in InstIds |-> FALSE]
  /\ session_closed = [i \in InstIds |-> FALSE]

\* ------------------------------------------ BotManager.broadcast_message
RECURSIVE SetToSeq(_)
SetToSeq(set) ==
  IF set = {} THEN <<>>
  ELSE LET m == CHOOSE x \in set : \A y \in set : x <= y
       IN <<m>> \o SetToSeq(set \ {m})

Min(a, b) == IF a < b THEN a ELSE b

\* chats[i:i + batch_size + 1]: the batches overlap
BatchOverlapping(chats, i, batch_size) ==
  SubSeq(chats, i + 1, Min(i + batch_size + 1, Len(chats)))

\* chats[i:i + batch_size]
Batch(chats, i, batch_size) == SubSeq(chats, i + 1, Min(i + batch_size, Len(chats)))

Count(seq, values) == Cardinality({n \in 1..Len(seq) : seq[n] \in values})

ActiveCount(js) == Count([n \in 1..Len(js) |-> js[n].pc], {"active"})
PendingCount(js) == Count([n \in 1..Len(js) |-> js[n].pc], {"pending"})

NewJob(chat, pc) == [chat |-> chat, pc |-> pc, attempts |-> 0, result |-> "none", via |-> 0]

\* the scheduler's done callback: the oldest pending job is started
StartPending(js) ==
  IF PendingCount(js) = 0 \/ ActiveCount(js) >= SchedulerLimit THEN js
  ELSE LET n == CHOOSE n \in 1..Len(js) :
                  js[n].pc = "pending" /\ \A m \in 1..(n - 1) : js[m].pc # "pending"
       IN [js EXCEPT ![n].pc = "active"]

\* the outer loop of broadcast_message takes bot ids, skipping the unknown
\* ones, up to the await of get_active_chats or the end of the call
RECURSIVE NextKnown(_, _)
NextKnown(ids, idx) ==
  IF idx >= Len(ids) THEN idx + 1
  ELSE IF ids[idx + 1] \in DOMAIN bots THEN idx + 1
  ELSE NextKnown(ids, idx + 1)

BNextBot(ids, idx) ==
  LET n == NextKnown(ids, idx) IN
  IF n > Len(ids)
  THEN /\ b_pc' = "done"
       /\ b_idx' = Len(ids)
       /\ b_bot' = b_bot
  ELSE /\ b_pc' = "get_chats"
       /\ b_idx' = n
       /\ b_bot' = bots[ids[n]]

BotIdLists == {<<t>> : t \in TenantIds} \cup {<<t, u>> : t, u \in TenantIds}

broadcast_message(none, ids, batch_size, retry_count) ==
  /\ b_pc = "idle"
  /\ LET bot_ids == IF none THEN SetToSeq(DOMAIN bots) ELSE ids IN
     /\ b_args' = [bot_ids |-> bot_ids, batch_size |-> batch_size, retry_count |-> retry_count]
     /\ BNextBot(bot_ids, 0)
  /\ total_success' = 0
  /\ total_failed' = 0
  /\ UNCHANGED <<b_chats, b_i, b_todo, results, jobs, sched_closed>>

\* ChatRecord.get_active_chats returns: no chats, or the first batch's spawn
\* coroutines are handed to asyncio.gather
broadcast_chats_loaded ==
  /\ b_pc = "get_chats"
  /\ LET chats == SetToSeq({p[2] : p \in {q \in db_active : q[1] = b_args.bot_ids[b_idx]}}) IN
     IF chats = <<>>
     THEN /\ BNextBot(b_args.bot_ids, b_idx)
          /\ UNCHANGED <<b_chats, b_i, b_todo, results>>
     ELSE /\ b_chats' = chats
          /\ b_i' = 0
          /\ b_todo' = Batch(chats, 0, b_args.batch_size)
          /\ results' = <<>>
          /\ b_pc' = "gather"
          /\ UNCHANGED <<b_idx, b_bot>>
  /\ UNCHANGED <<b_args, total_success, total_failed, jobs, sched_closed>>

\* ChatRecord.get_active_chats raises and nothing catches it: the call ends
broadcast_chats_load_raises ==
  /\ b_pc = "get_chats"
  /\ b_pc' = "raised"
  /\ UNCHANGED <<b_args, b_idx, b_bot, b_chats, b_i, b_todo, results, total_success,
                 total_failed, jobs, sched_closed>>

\* ChatRecord.get_active_chats raises: logged, the next bot id is taken
broadcast_chats_load_failed ==
  /\ b_pc = "get_chats"
  /\ BNextBot(b_args.bot_ids, b_idx)
  /\ UNCHANGED <<b_args, b_chats, b_i, b_todo, results, total_success, total_failed,
                 jobs, sched_closed>>

\* asyncio.gather runs the next `self._scheduler.spawn(...)` coroutine: spawn
\* raises when the scheduler is closed, starts the job when fewer than limit
\* are active, else puts it on the pending queue, waiting while that is full;
\* its result is the Job
spawn_runs ==
  /\ b_pc = "gather" /\ b_todo # <<>>
  /\ IF sched_closed
     THEN /\ results' = Append(results, "RuntimeError")
          /\ jobs' = jobs
     ELSE IF ActiveCount(jobs) < SchedulerLimit
     THEN /\ results' = Append(results, "Job")
          /\ jobs' = Append(jobs, NewJob(Head(b_todo), "active"))
     ELSE /\ PendingCount(jobs) < PendingLimit
          /\ results' = Append(results, "Job")
          /\ jobs' = Append(jobs, NewJob(Head(b_todo), "pending"))
  /\ b_todo' = Tail(b_todo)
  /\ UNCHANGED <<b_pc, b_args, b_idx, b_bot, b_chats, b_i, total_success, total_failed,
                 sched_closed>>

\* asyncio.gather returns the results; they are tallied
gather_returns ==
  /\ b_pc = "gather" /\ b_todo = <<>>
  /\ total_success' = total_success + Count(results, {"True"})
  /\ total_failed' = total_failed + Count(results, {"False", "RuntimeError"})
  /\ b_pc' = "sleep"
  /\ UNCHANGED <<b_args, b_idx, b_bot, b_chats, b_i, b_todo, results, jobs, sched_closed>>

\* asyncio.sleep(0.1) returns: the next batch, or the next bot id
sleep_returns ==
  /\ b_pc = "sleep"
  /\ IF b_i + b_args.batch_size < Len(b_chats)
     THEN /\ b_i' = b_i + b_args.batch_size
          /\ b_todo' = Batch(b_chats, b_i + b_args.batch_size, b_args.batch_size)
          /\ results' = <<>>
          /\ b_pc' = "gather"
          /\ UNCHANGED <<b_idx, b_bot>>
     ELSE /\ BNextBot(b_args.bot_ids, b_idx)
          /\ UNCHANGED <<b_i, b_todo, results>>
  /\ UNCHANGED <<b_args, b_chats, total_success, total_failed, jobs, sched_closed>>

\* send_with_retry: an attempt's bot.send_message returns; it returns True
send_message_returns(j) ==
  /\ jobs[j].pc = "active"
  /\ jobs' = StartPending([jobs EXCEPT ![j].attempts = @ + 1, ![j].via = b_bot,
                                        ![j].pc = "done", ![j].result = "True"])
  /\ UNCHANGED <<b_pc, b_args, b_idx, b_bot, b_chats, b_i, b_todo, results,
                 total_success, total_failed, sched_closed>>

\* send_with_retry: an attempt's bot.send_message raises; after the last
\* attempt it returns False, else it sleeps and tries again
send_message_raises(j) ==
  /\ jobs[j].pc = "active"
  /\ jobs' = IF jobs[j].attempts = b_args.retry_count - 1
             THEN StartPending([jobs EXCEPT ![j].attempts = @ + 1, ![j].via = b_bot,
                                             ![j].pc = "done", ![j].result = "False"])
             ELSE [jobs EXCEPT ![j].attempts = @ + 1, ![j].via = b_bot]
  /\ UNCHANGED <<b_pc, b_args, b_idx, b_bot, b_chats, b_i, b_todo, results,
                 total_success, total_failed, sched_closed>>

\* stop_all closes the scheduler: its unfinished jobs are cancelled
scheduler_close ==
  /\ ~sched_closed
  /\ sched_closed' = TRUE
  /\ jobs' = [n \in 1..Len(jobs) |->
               IF jobs[n].pc = "done" THEN jobs[n]
               ELSE [jobs[n] EXCEPT !.pc = "done", !.result = "cancelled"]]
  /\ UNCHANGED <<b_pc, b_args, b_idx, b_bot, b_chats, b_i, b_todo, results,
                 total_success, total_failed>>

BcastInit ==
  /\ b_pc = "idle"
  /\ b_args = [bot_ids |-> <<>>, batch_size |-> 1, retry_count |-> 1]
  /\ b_idx = 0
  /\ b_bot = 0
  /\ b_chats = <<>>
  /\ b_i = 0
  /\ b_todo = <<>>
  /\ results = <<>>
  /\ total_success = 0
  /\ total_failed = 0
  /\ jobs = <<>>
  /\ sched_closed = FALSE

\* ---------------------------------------------------- BotManager.stop_all
\* stop_all up to its gather: nothing to do without bots; else one stop_bot
\* coroutine per key of _bots
stop_all ==
  /\ sa_pc = "idle"
  /\ IF DOMAIN bots = {}
     THEN sa_pc' = "done" /\ UNCHANGED sa_tasks
     ELSE sa_pc' = "gather" /\ sa_tasks' = [t \in DOMAIN bots |-> "new"]
  /\ UNCHANGED <<sa_failed, sessVars, bcastVars>>

\* stop_bot(t) of the gather: t is a key of _bots, bot.stop() deletes the
\* webhook and closes the session
stop_bot_stopped(t) ==
  /\ sa_pc = "gather" /\ t \in DOMAIN sa_tasks /\ sa_tasks[t] = "new"
  /\ t \in DOMAIN bots
  /\ session_closed' = [session_closed EXCEPT ![bots[t]] = TRUE]
  /\ sa_tasks' = [sa_tasks EXCEPT ![t] = "stopped"]
  /\ UNCHANGED <<sa_pc, sa_failed, bcastVars>>

\* stop_bot(t) of the gather: delete_webhook raises, bot.stop() handles the
\* error itself and returns, so does stop_bot
stop_bot_stop_failed(t) ==
  /\ sa_pc = "gather" /\ t \in DOMAIN sa_tasks /\ sa_tasks[t] = "new"
  /\ t \in DOMAIN bots
  /\ sa_tasks' = [sa_tasks EXCEPT ![t] = "stop_failed"]
  /\ UNCHANGED <<sa_pc, sa_failed, sessVars, bcastVars>>

\* stop_bot(t) of the gather: t is no longer a key of _bots, ValueError
stop_bot_raises(t) ==
  /\ sa_pc = "gather" /\ t \in DOMAIN sa_tasks /\ sa_tasks[t] = "new"
  /\ t \notin DOMAIN bots
  /\ sa_tasks' = [sa_tasks EXCEPT ![t] = "raised"]
  /\ UNCHANGED <<sa_pc, sa_failed, sessVars, bcastVars>>

\* gather(..., return_exceptions=True) returns: the exceptions among the
\* results are counted; no Kafka configuration was given, so _kafka_consumer
\* is None, and the call awaits the close of the scheduler
stop_all_gathered ==
  /\ sa_pc = "gather"
  /\ \A t \in DOMAIN sa_tasks : sa_tasks[t] # "new"
  /\ sa_failed' = Cardinality({t \in DOMAIN sa_tasks : sa_tasks[t] = "raised"})
  /\ sa_pc' = "close"
  /\ UNCHANGED <<sa_tasks, sessVars, bcastVars>>

\* self._scheduler.close() returns
stop_all_closed ==
  /\ sa_pc = "close"
  /\ sa_pc' = "done"
  /\ scheduler_close \/ (sched_closed /\ UNCHANGED bcastVars)
  /\ UNCHANGED <<sa_tasks, sa_failed, sessVars>>

StopAllInit ==
  /\ sa_pc = "idle"
  /\ sa_tasks = <<>>
  /\ sa_failed = 0

\* the registry after register_bot of some tenants, each with some of its
\* chats persisted as active
Registered(S, A) ==
  /\ bots = [t \in S |-> PreInst(t)]
  /\ db_active = A
  /\ chat_bot_mapping = [c \in {c \in ChatIds : \E t \in S : <<t, c>> \in A} |->
                           {t \in S : <<t, c>> \in A}]
  /\ m_lock = 0
  /\ m_waiters = <<>>
  /\ calls = [k \in CallIds |-> NoCall]
  /\ ncalls = 0

RegisteredInit ==
  \E S \in SUBSET TenantIds, A \in SUBSET (TenantIds \X ChatIds) : Registered(S, A)

\* ------------------------------------------------------- specifications
\* what the steps of one component leave alone
exceptReg == <<dispVars, lifeVars, sessVars, routerVars, bcastVars, eventVars, stopAllVars>>
exceptDisp == <<regVars, lifeVars, sessVars, routerVars, bcastVars, eventVars, stopAllVars>>
exceptRouter == <<regVars, dispVars, lifeVars, sessVars, bcastVars, eventVars, stopAllVars>>
exceptLife == <<regVars, dispVars, routerVars, bcastVars, eventVars, stopAllVars>>
exceptBcast == <<regVars, dispVars, lifeVars, sessVars, routerVars, eventVars, stopAllVars>>
exceptEvents == <<regVars, dispVars, lifeVars, sessVars, routerVars, bcastVars, stopAllVars>>
\* unregister_bot, whose bot.stop() closes the session of the instance
exceptUnregister == <<dispVars, lifeVars, routerVars, bcastVars, eventVars, stopAllVars>>

\* stop_all: what its steps leave alone (bot.stop() closes sessions, the
\* tail of stop_all closes the scheduler)
exceptStopAll == <<regVars, dispVars, lifeVars, routerVars, eventVars>>

Init == RegInit /\ DispInit /\ LifeInit /\ RouterInit /\ BcastInit /\ EventsInit /\ StopAllInit

\* the tenant registry: register_bot, unregister_bot, update_chat_activity
Next ==
  \/ (\E t \in TenantIds : register_bot(t)) /\ UNCHANGED exceptReg
  \/ (\E t \in TenantIds : unregister_bot(t)) /\ UNCHANGED exceptReg
  \/ (\E t \in TenantIds, c \in ChatIds, a \in BOOLEAN : update_chat_activity(t, c, a)) /\ UNCHANGED exceptReg
  \/ (\E k \in CallIds : LockGranted(k)) /\ UNCHANGED exceptReg
  \/ (\E k \in CallIds : get_active_chats(k)) /\ UNCHANGED exceptReg
  \/ (\E k \in CallIds : register_bot_loaded(k)) /\ UNCHANGED exceptReg
  \/ (\E k \in CallIds : register_bot_load_failed(k)) /\ UNCHANGED exceptReg
  \/ (\E k \in CallIds : unregister_bot_stopped(k)) /\ UNCHANGED exceptUnregister
  \/ (\E k \in CallIds : unregister_bot_stop_failed(k)) /\ UNCHANGED exceptReg
  \/ (\E k \in CallIds : ChatRecord_save(k)) /\ UNCHANGED exceptReg
  \/ (\E k \in CallIds : ChatRecord_save_failed(k)) /\ UNCHANGED exceptReg
  \/ (\E k \in CallIds : update_chat_activity_saved(k)) /\ UNCHANGED exceptReg

Spec == Init /\ [][Next]_vars

\* the HandlerRegistry and the dispatch of one bot
NextDispatch ==
  \/ (\E h \in HandlerIds : register_message_handler(h)) /\ UNCHANGED exceptDisp
  \/ (\E h \in CallbackIds : register_callback_handler(h)) /\ UNCHANGED exceptDisp
  \/ (\E h \in HandlerIds : unregister_message_handler(h)) /\ UNCHANGED exceptDisp
  \/ (\E h \in CallbackIds : unregister_callback_handler(h)) /\ UNCHANGED exceptDisp
  \/ (\E d \in DispIds : process_message(d)) /\ UNCHANGED exceptDisp
  \/ (\E d \in DispIds : process_callback_query(d)) /\ UNCHANGED exceptDisp
  \/ (\E d \in DispIds, accepts \in BOOLEAN : can_handle_returns(d, accepts)) /\ UNCHANGED exceptDisp
  \/ (\E d \in DispIds : handle_returns(d)) /\ UNCHANGED exceptDisp
  \/ (\E d \in DispIds : handler_raises(d)) /\ UNCHANGED exceptDisp

SpecDispatch == Init /\ [][NextDispatch]_vars

\* the queue router beside register_bot and unregister_bot
NextRouter ==
  \/ (router_start) /\ UNCHANGED exceptRouter
  \/ (router_stop) /\ UNCHANGED exceptRouter
  \/ (\E r \in RCallIds : router_lock_granted(r)) /\ UNCHANGED exceptRouter
  \/ (\E r \in RCallIds : consumer_started(r)) /\ UNCHANGED exceptRouter
  \/ (\E r \in RCallIds : consumer_start_failed(r)) /\ UNCHANGED exceptRouter
  \/ (\E r \in RCallIds : stop_task_awaited(r)) /\ UNCHANGED exceptRouter
  \/ (\E r \in RCallIds : stop_consumer_stopped(r)) /\ UNCHANGED exceptRouter
  \/ (loop_begins) /\ UNCHANGED exceptRouter
  \/ (loop_cancelled_unstarted) /\ UNCHANGED exceptRouter
  \/ (\E data \in Envelopes : consume(data)) /\ UNCHANGED exceptRouter
  \/ (feed_update_returns) /\ UNCHANGED exceptRouter
  \/ (consumer_fails) /\ UNCHANGED exceptRouter
  \/ (loop_cancelled) /\ UNCHANGED exceptRouter
  \/ (loop_lock_granted) /\ UNCHANGED exceptRouter
  \/ (loop_self_awaited) /\ UNCHANGED exceptRouter
  \/ (loop_consumer_stopped) /\ UNCHANGED exceptRouter
  \/ (\E t \in TenantIds : register_bot(t)) /\ UNCHANGED exceptReg
  \/ (\E t \in TenantIds : unregister_bot(t)) /\ UNCHANGED exceptReg
  \/ (\E k \in CallIds : LockGranted(k)) /\ UNCHANGED exceptReg
  \/ (\E k \in CallIds : get_active_chats(k)) /\ UNCHANGED exceptReg
  \/ (\E k \in CallIds : register_bot_loaded(k)) /\ UNCHANGED exceptReg
  \/ (\E k \in CallIds : register_bot_load_failed(k)) /\ UNCHANGED exceptReg
  \/ (\E k \in CallIds : unregister_bot_stopped(k)) /\ UNCHANGED exceptUnregister
  \/ (\E k \in CallIds : unregister_bot_stop_failed(k)) /\ UNCHANGED exceptReg

SpecRouter == Init /\ [][NextRouter]_vars

\* the queue router alone over a populated registry; the event loop runs every
\* coroutine that is ready, and the awaited calls of the queue client and of
\* feed_update return
RouterOnly(A) == A /\ UNCHANGED exceptRouter

InitRouterOnly ==
  /\ \E S \in SUBSET TenantIds : Registered(S, {})
  /\ DispInit /\ LifeInit /\ RouterInit /\ BcastInit /\ EventsInit /\ StopAllInit

NextRouterOnly ==
  \/ (router_start) /\ UNCHANGED exceptRouter
  \/ (router_stop) /\ UNCHANGED exceptRouter
  \/ (\E r \in RCallIds : router_lock_granted(r)) /\ UNCHANGED exceptRouter
  \/ (\E r \in RCallIds : consumer_started(r)) /\ UNCHANGED exceptRouter
  \/ (\E r \in RCallIds : consumer_start_failed(r)) /\ UNCHANGED exceptRouter
  \/ (\E r \in RCallIds : stop_task_awaited(r)) /\ UNCHANGED exceptRouter
  \/ (\E r \in RCallIds : stop_consumer_stopped(r)) /\ UNCHANGED exceptRouter
  \/ (loop_begins) /\ UNCHANGED exceptRouter
  \/ (loop_cancelled_unstarted) /\ UNCHANGED exceptRouter
  \/ (\E data \in Envelopes : consume(data)) /\ UNCHANGED exceptRouter
  \/ (feed_update_returns) /\ UNCHANGED exceptRouter
  \/ (consumer_fails) /\ UNCHANGED exceptRouter
  \/ (loop_cancelled) /\ UNCHANGED exceptRouter
  \/ (loop_lock_granted) /\ UNCHANGED exceptRouter
  \/ (loop_self_awaited) /\ UNCHANGED exceptRouter
  \/ (loop_consumer_stopped) /\ UNCHANGED exceptRouter

FairSpecRouter ==
  /\ InitRouterOnly
  /\ [][NextRouterOnly]_vars
  /\ WF_vars(RouterOnly(\E r \in RCallIds : router_lock_granted(r)))
  /\ WF_vars(RouterOnly(\E r \in RCallIds : consumer_started(r)))
  /\ WF_vars(RouterOnly(\E r \in RCallIds : stop_task_awaited(r)))
  /\ WF_vars(RouterOnly(\E r \in RCallIds : stop_consumer_stopped(r)))
  /\ WF_vars(RouterOnly(loop_begins))
  /\ WF_vars(RouterOnly(loop_cancelled_unstarted))
  /\ WF_vars(RouterOnly(feed_update_returns))
  /\ WF_vars(RouterOnly(loop_cancelled))
  /\ WF_vars(RouterOnly(loop_lock_granted))
  /\ WF_vars(RouterOnly(loop_self_awaited))
  /\ WF_vars(RouterOnly(loop_consumer_stopped))

\* a broadcast over a populated registry
InitBroadcast ==
  RegisteredInit /\ DispInit /\ LifeInit /\ RouterInit /\ BcastInit /\ EventsInit /\ StopAllInit

NextBroadcast ==
  \/ (\E none \in BOOLEAN, ids \in BotIdLists, batch_size \in 1..MaxBatch,
           retry_count \in 1..MaxRetry :
           (none => ids = <<1>>) /\ broadcast_message(none, ids, batch_size, retry_count))
       /\ UNCHANGED exceptBcast
  \/ (broadcast_chats_loaded) /\ UNCHANGED exceptBcast
  \/ (broadcast_chats_load_failed) /\ UNCHANGED exceptBcast
  \/ (spawn_runs) /\ UNCHANGED exceptBcast
  \/ (gather_returns) /\ UNCHANGED exceptBcast
  \/ (sleep_returns) /\ UNCHANGED exceptBcast
  \/ (\E j \in DOMAIN jobs : send_message_returns(j)) /\ UNCHANGED exceptBcast
  \/ (\E j \in DOMAIN jobs : send_message_raises(j)) /\ UNCHANGED exceptBcast
  \/ (scheduler_close) /\ UNCHANGED exceptBcast

SpecBroadcast == InitBroadcast /\ [][NextBroadcast]_vars

\* one broadcast to one tenant that has up to MaxPartition active chats
InitPartition ==
  /\ \E n \in 0..MaxPartition :
       /\ bots = (1 :> PreInst(1))
       /\ db_active = {<<1, c>> : c \in 1..n}
       /\ chat_bot_mapping = [c \in 1..n |-> {1}]
  /\ m_lock = 0
  /\ m_waiters = <<>>
  /\ calls = [k \in CallIds |-> NoCall]
  /\ ncalls = 0
  /\ DispInit /\ LifeInit /\ RouterInit /\ BcastInit /\ EventsInit /\ StopAllInit

NextPartition ==
  \/ (\E batch_size \in 1..MaxBatch : broadcast_message(FALSE, <<1>>, batch_size, 1))
       /\ UNCHANGED exceptBcast
  \/ (broadcast_chats_loaded) /\ UNCHANGED exceptBcast
  \/ (spawn_runs) /\ UNCHANGED exceptBcast
  \/ (gather_returns) /\ UNCHANGED exceptBcast
  \/ (sleep_returns) /\ UNCHANGED exceptBcast
  \/ (\E j \in DOMAIN jobs : send_message_returns(j)) /\ UNCHANGED exceptBcast
  \/ (\E j \in DOMAIN jobs : send_message_raises(j)) /\ UNCHANGED exceptBcast

SpecPartition == InitPartition /\ [][NextPartition]_vars

\* the operations of the registry on tenants and chats it holds already
SpecRegistered == InitBroadcast /\ [][Next]_vars

\* the lifecycle of the instances
NextLifecycle ==
  \/ (\E i \in InstIds : start_polling(i)) /\ UNCHANGED exceptLife
  \/ (\E i \in InstIds : get_me_returns(i)) /\ UNCHANGED exceptLife
  \/ (\E i \in InstIds : get_me_fails(i)) /\ UNCHANGED exceptLife
  \/ (\E i \in InstIds : polling_stops(i)) /\ UNCHANGED exceptLife
  \/ (\E i \in InstIds : shutdown_emitted(i)) /\ UNCHANGED exceptLife
  \/ (\E i \in InstIds : polling_update(i)) /\ UNCHANGED exceptLife
  \/ (\E i \in InstIds : stop(i)) /\ UNCHANGED exceptLife
  \/ (\E i \in InstIds : stop_delete_webhook_raises(i)) /\ UNCHANGED exceptLife

SpecLifecycle == Init /\ [][NextLifecycle]_vars

\* registered tenants, their instances polling or not, being unregistered
NextUnregister ==
  \/ (\E t \in TenantIds : unregister_bot(t)) /\ UNCHANGED exceptReg
  \/ (\E k \in CallIds : LockGranted(k)) /\ UNCHANGED exceptReg
  \/ (\E k \in CallIds : unregister_bot_stopped(k)) /\ UNCHANGED exceptUnregister
  \/ (\E k \in CallIds : unregister_bot_stop_failed(k)) /\ UNCHANGED exceptReg
  \/ (\E t \in TenantIds : start_polling(PreInst(t))) /\ UNCHANGED exceptLife
  \/ (\E t \in TenantIds : get_me_returns(PreInst(t))) /\ UNCHANGED exceptLife
  \/ (\E t \in TenantIds : get_me_fails(PreInst(t))) /\ UNCHANGED exceptLife
  \/ (\E t \in TenantIds : polling_stops(PreInst(t))) /\ UNCHANGED exceptLife
  \/ (\E t \in TenantIds : shutdown_emitted(PreInst(t))) /\ UNCHANGED exceptLife
  \/ (\E t \in TenantIds : polling_update(PreInst(t))) /\ UNCHANGED exceptLife

SpecUnregister == InitBroadcast /\ [][NextUnregister]_vars

\* stop_all over registered tenants, started or not, with unregister_bot
NextStopAll ==
  \/ stop_all /\ UNCHANGED exceptStopAll
  \/ (\E t \in TenantIds : stop_bot_stopped(t)) /\ UNCHANGED exceptStopAll
  \/ (\E t \in TenantIds : stop_bot_stop_failed(t)) /\ UNCHANGED exceptStopAll
  \/ (\E t \in TenantIds : stop_bot_raises(t)) /\ UNCHANGED exceptStopAll
  \/ stop_all_gathered /\ UNCHANGED exceptStopAll
  \/ stop_all_closed /\ UNCHANGED exceptStopAll
  \/ (\E t \in TenantIds : unregister_bot(t)) /\ UNCHANGED exceptReg
  \/ (\E k \in CallIds : LockGranted(k)) /\ UNCHANGED exceptReg
  \/ (\E k \in CallIds : unregister_bot_stopped(k)) /\ UNCHANGED exceptUnregister
  \/ (\E k \in CallIds : unregister_bot_stop_failed(k)) /\ UNCHANGED exceptReg
  \/ (\E t \in TenantIds : start_polling(PreInst(t))) /\ UNCHANGED exceptLife
  \/ (\E t \in TenantIds : get_me_returns(PreInst(t))) /\ UNCHANGED exceptLife
  \/ (\E t \in TenantIds : get_me_fails(PreInst(t))) /\ UNCHANGED exceptLife
  \/ (\E t \in TenantIds : polling_stops(PreInst(t))) /\ UNCHANGED exceptLife
  \/ (\E t \in TenantIds : shutdown_emitted(PreInst(t))) /\ UNCHANGED exceptLife

SpecStopAll == InitRouterOnly /\ [][NextStopAll]_vars

\* the same over tenants that have chats, some of them shared
SpecStopTenant == InitBroadcast /\ [][NextStopAll]_vars

\* the HandlerRegistry alone: registrations and reads of the sorted list
NextHandlerRegistry ==
  \/ (\E h \in HandlerIds : register_message_handler(h)) /\ UNCHANGED exceptDisp
  \/ (\E h \in HandlerIds : unregister_message_handler(h)) /\ UNCHANGED exceptDisp
  \/ (\E h \in CallbackIds : register_callback_handler(h)) /\ UNCHANGED exceptDisp
  \/ (\E h \in CallbackIds : unregister_callback_handler(h)) /\ UNCHANGED exceptDisp
  \/ get_message_handlers_called /\ UNCHANGED exceptDisp

SpecHandlerRegistry == Init /\ [][NextHandlerRegistry]_vars

\* the EventManager: subscriptions and emits
NextEvents ==
  \/ (\E l \in ListenerIds : add_listener(l)) /\ UNCHANGED exceptEvents
  \/ (\E l \in ListenerIds : remove_listener(l)) /\ UNCHANGED exceptEvents
  \/ (\E e \in EmitIds, event \in EventKinds : emit(e, event)) /\ UNCHANGED exceptEvents
  \/ (\E e \in EmitIds : listener_returns(e)) /\ UNCHANGED exceptEvents
  \/ (\E e \in EmitIds : listener_raises(e)) /\ UNCHANGED exceptEvents

SpecEvents == Init /\ [][NextEvents]_vars

\* ------------------------------------------------------------- claims
\* C1 (as claimed): for every event a BotInstance dispatches, at most one
\* registered handler's handle is invoked, whatever handlers are registered.
C1_AtMostOneHandle == \A d \in DispIds : disp[d].invoked <= 1

\* what a step that consumes an envelope feeds, against the registry it finds
C2_Step ==
  IF k_pos' = k_pos THEN cur_fed' = cur_fed
  ELSE LET e == cur_env' IN
       /\ Cardinality(cur_fed') <= 1
       /\ \A i \in cur_fed' : e.bot_id \in DOMAIN bots /\ i = bots[e.bot_id]
       /\ (k_running /\ e.bot_id \in DOMAIN bots /\ e.update = "ok")
            => cur_fed' = {bots[e.bot_id]}

\* C2: an envelope with a registered tenant-id and a well-formed update is fed
\* to the instance registered under that id and to no other; no envelope is
\* fed to more than one instance, and feeding happens only when an envelope
\* is consumed.
C2_FedToOwnerOnly == [][C2_Step]_vars

\* C2 witness: a well-formed envelope for a registered tenant is being fed to
\* that tenant's instance while another tenant is registered too.
C2_Witness ==
  /\ cur_env.update = "ok"
  /\ cur_env.bot_id \in DOMAIN bots
  /\ cur_fed = {bots[cur_env.bot_id]}
  /\ \E t \in DOMAIN bots : t # cur_env.bot_id
  /\ loop_pc = "feed"

\* C3 (as claimed): every tenant-id in a set of the chat-id index is a key of
\* the tenant map, in every reachable state.
C3_IndexTenantsRegistered ==
  \A c \in DOMAIN chat_bot_mapping : chat_bot_mapping[c] \subseteq DOMAIN bots

RegisterCalls(t) == {k \in CallIds : calls[k].op = "register" /\ calls[k].t = t}

\* register_bot call k passes the lock and runs its duplicate check in this step
C4_Checks(k) ==
  /\ calls'[k].op = "register"
  /\ calls[k].pc \in {"idle", "wait_lock"}
  /\ calls'[k].pc \notin {"idle", "wait_lock"}

\* a register_bot that finds its tenant-id in the tenant map fails as a
\* duplicate and leaves the map as it was, and no other call fails so
C4_DuplicateStep ==
  \A k \in CallIds :
    /\ (C4_Checks(k) /\ calls'[k].t \in DOMAIN bots)
         => (calls'[k].result = "duplicate" /\ bots' = bots)
    /\ (calls[k].result # "duplicate" /\ calls'[k].result = "duplicate")
         => (C4_Checks(k) /\ calls'[k].t \in DOMAIN bots /\ bots' = bots)

\* the register_bot calls of tenant t have all returned, one of them was made
\* while another was in flight, and no unregister_bot(t) was ever made
C4_ConcurrentDone(t) ==
  /\ \E k \in RegisterCalls(t) : calls[k].conc
  /\ \A k \in RegisterCalls(t) : calls[k].pc = "done"
  /\ \A k \in CallIds : calls[k].op = "unregister" => calls[k].t # t

C4_Succeeded(t) == {k \in RegisterCalls(t) : calls[k].result = "ok"}

\* C4 (as claimed): a register_bot of a tenant-id already in the tenant map fails
\* with the duplicate error and leaves the entry bound to the first instance;
\* of concurrent register_bot calls for one id exactly one succeeds.
C4_DuplicateExactlyOne ==
  /\ [][C4_DuplicateStep]_vars
  /\ [](\A t \in TenantIds : C4_ConcurrentDone(t) => Cardinality(C4_Succeeded(t)) = 1)

\* C5 (as claimed): when a broadcast to one tenant with N active chats is
\* complete, the success count plus the failure count is N.
C5_TallyCoversEveryChat ==
  (b_pc = "done" /\ Len(b_args.bot_ids) = 1 /\ b_chats # <<>>)
    => total_success + total_failed = Len(b_chats)

\* a send task that has returned True makes no further attempt
C6_Step ==
  \A j \in DOMAIN jobs : jobs[j].result = "True" => jobs'[j] = jobs[j]

\* the send tasks that returned False
C6_FailedChats == {j \in DOMAIN jobs : jobs[j].result = "False"}

\* C6 (as claimed): a send task makes at most retry_count attempts and none
\* after its first success, and once the broadcast and its send tasks are
\* complete, the scheduler still open, the failure count is the number of
\* chats whose retry_count attempts all failed.
C6_RetryBoundAndFailureCount ==
  /\ [][C6_Step]_vars
  /\ [](\A j \in DOMAIN jobs :
          /\ jobs[j].attempts <= b_args.retry_count
          /\ jobs[j].result = "False" => jobs[j].attempts = b_args.retry_count)
  /\ []((b_pc = "done" /\ ~sched_closed /\ \A j \in DOMAIN jobs : jobs[j].pc = "done")
          => total_failed = Cardinality(C6_FailedChats))

\* envelope e is one that _process_message has to skip
C7_BadEnvelope(e) ==
  e.bot_id = 0 \/ e.bot_id \notin DOMAIN bots \/ e.update # "ok"

\* what a step that consumes such an envelope does
C7_Step ==
  (k_pos' # k_pos /\ k_running /\ C7_BadEnvelope(cur_env'))
    => /\ cur_fed' = {}
       /\ loop_pc' = "next"
       /\ k_running' /\ k_consumer' = "started" /\ ~loop_cancel'

\* C7: an envelope with an absent tenant-id, an unregistered tenant-id, or a
\* missing or malformed update feeds no instance and leaves the consume loop
\* at its iterator, neither cancelled nor ended, ready for the next envelope.
C7_BadEnvelopeSkipped == [][C7_Step]_vars

\* C7 witness: the last envelope of the stream named a tenant that is not
\* registered, while another is; nothing was fed and the loop is still at its
\* iterator.
C7_Witness ==
  /\ k_pos = MaxEnvelopes
  /\ cur_env.bot_id # 0 /\ cur_env.bot_id \notin DOMAIN bots /\ cur_env.update = "ok"
  /\ DOMAIN bots # {}
  /\ cur_fed = {}
  /\ loop_pc = "next" /\ k_running

\* a stop() has found the router running and has not returned yet
C8_StopBegun ==
  \/ \E r \in RCallIds : rcalls[r].op = "stop" /\ rcalls[r].pc \in {"await_task", "task_none", "await_stop"}
  \/ loop_pc \in {"fin_await_self", "fin_await_stop"}

\* a stop() call goes on to consumer.stop() only with the consume task done,
\* and no envelope is fed once a stop() has begun
C8_Step ==
  /\ \A r \in RCallIds :
       (rcalls[r].pc # "await_stop" /\ rcalls'[r].pc = "await_stop")
         => (rcalls[r].pc = "task_none" \/ loop_pc = "done")
  /\ (k_pos' # k_pos /\ cur_fed' # {}) => ~C8_StopBegun

\* C8 (as claimed): a stop() that found the router running cancels the consume
\* task and has finished awaiting it when it goes on to stop the queue client,
\* which it does; and no envelope is fed to an instance once it has begun.
C8_StopAwaitsTaskThenStopsClient ==
  /\ [][C8_Step]_vars
  /\ \A r \in RCallIds :
       (rcalls[r].op = "stop" /\ rcalls[r].pc = "await_task")
         ~> (rcalls[r].pc = "done" /\ k_consumer = "none")

\* the edges of the lifecycle graph
C9_Edges ==
  {<<"idle", "starting">>, <<"starting", "running">>, <<"starting", "error">>,
   <<"running", "error">>, <<"running", "stopping">>, <<"error", "stopping">>,
   <<"stopping", "stopped">>}

C9_Step == \A i \in InstIds : state'[i] # state[i] => <<state[i], state'[i]>> \in C9_Edges

\* C9 (as claimed): every change of an instance's lifecycle state follows an
\* edge of Idle->Starting, Starting->Running, Starting->Error, Running->Error,
\* Running->Stopping, Error->Stopping, Stopping->Stopped.
C9_LifecycleEdges == [][C9_Step]_vars

C10_Step == k_pos' # k_pos => \A i \in cur_fed' : state[i] = "running"

\* C10 (as claimed): no envelope is fed to the handlers of an instance whose
\* lifecycle state is not Running.
C10_DispatchOnlyWhenRunning == [][C10_Step]_vars

\* C11 (as claimed): when the handle of the matched handler has returned or
\* raised, the dispatch of that event ends there: it goes on to no other
\* handler's can_handle or handle.
C11_Step ==
  \A d \in DispIds :
    (disp[d].pc = "handle" /\ disp'[d] # disp[d])
      => disp'[d].pc = "idle"

C11_DispatchEndsWhenHandleRaises == [][C11_Step]_vars

\* C12: a raising handler never prevents later events from being dispatched.
\* Every step of a dispatch in progress, a raise included, leaves the handler
\* registry as it was and leaves the dispatch either in its loop or returned
\* to the transport with nothing kept of the event (the slot is again the
\* one a fresh event starts from).
C12_Step ==
  \A d \in DispIds :
    (disp[d].pc # "idle" /\ disp'[d] # disp[d])
      => /\ message_handlers' = message_handlers
         /\ callback_handlers' = callback_handlers
         /\ \/ disp'[d] = NoDispatch
            \/ /\ disp'[d].pc \in {"can_handle", "handle"}
               /\ disp'[d].kind = disp[d].kind

C12_PipelineSurvivesRaise == [][C12_Step]_vars

\* a handler has raised in an earlier event, that dispatch has returned, and
\* the handler of a later event is being invoked
C12_Witness ==
  /\ error_notified
  /\ \E d \in DispIds :
       /\ disp[d].pc = "handle"
       /\ disp[d].errors = 0
       /\ \A e \in DispIds \ {d} : disp[e] = NoDispatch

\* C13 (as claimed): for a message event the handler whose handle is invoked
\* is the first one, in the order of get_message_handlers, whose can_handle
\* returned true: when it is invoked no handler before it in that order has
\* been accepted for this event, so no handler after an accepted one is invoked.
C13_Step ==
  \A d \in DispIds :
    (disp[d].kind = "message" /\ disp[d].pc = "can_handle" /\ disp'[d].pc = "handle")
      => /\ disp[d].invoked = 0
         /\ disp'[d].cur = disp[d].cur

C13_InvokedIsFirstAccepted == [][C13_Step]_vars

\* g holds exactly the handlers of the list hs, by priority descending
C14_Sorted(g, hs) ==
  /\ Len(g) = Len(hs)
  /\ Range(g) = Range(hs)
  /\ \A i, j \in 1..Len(g) : i < j => Priority(g[i]) >= Priority(g[j])

C14_Before(seq, a, b) == IndexOf(seq, a) < IndexOf(seq, b)

\* registration order among equal priorities, from what get_message_handlers
\* returned before a step (g) to what it returns after it (gp): a handler
\* registered by the step comes behind every registered handler of its
\* priority, and two handlers that stay registered keep their order
C14_Stable(g, gp) ==
  \A a, b \in Range(gp) :
    (a # b /\ Priority(a) = Priority(b) /\ a \in Range(g))
      => IF b \in Range(g)
         THEN C14_Before(gp, a, b) <=> C14_Before(g, a, b)
         ELSE C14_Before(gp, a, b)

C14_Step ==
  \A g \in {get_message_handlers} : \A gp \in {get_message_handlers'} :
    /\ C14_Sorted(gp, message_handlers')
    /\ C14_Stable(g, gp)

\* C14: after any sequence of register_message_handler and
\* unregister_message_handler calls, get_message_handlers returns exactly the
\* registered handlers sorted by priority descending, handlers of equal
\* priority in their registration order.
C14_SortedStable == [][C14_Step]_vars

\* three handlers, two of them of equal priority and registered before the
\* one of higher priority, so that the sort has to move a handler
C14_Witness ==
  /\ get_message_handlers = <<2, 3, 1>>
  /\ message_handlers # get_message_handlers

C16_Step ==
  \A i \in InstIds :
    (state[i] = "starting" /\ poll[i] = "get_me" /\ state'[i] # "running")
      => /\ state'[i] = "error"
         /\ poll'[i] # "polling"

C16_StartFailsToCaller == [][C16_Step]_vars

\* C17 (as claimed): stop() called on an instance in Running or Error leaves it
\* Stopped (through Stopping), whether or not the teardown of the transport
\* fails.
C17_Step ==
  \A i \in InstIds :
    (session_closed'[i] # session_closed[i] /\ state[i] \in {"running", "error"})
      => state'[i] = "stopped"

C17_StopReachesStopped == [][C17_Step]_vars

C18_Gone(t) ==
  /\ t \notin DOMAIN bots
  /\ \A c \in DOMAIN chat_bot_mapping : t \notin chat_bot_mapping[c]

\* C18: in the state unregister_bot(t) returns in for a registered tenant t,
\* t is not a key of the tenant map and is in no set of the chat-id index,
\* also when stopping the instance failed and whatever the lifecycle state of
\* the instance.
C18_Step ==
  \A k \in CallIds :
    (calls[k].op = "unregister" /\ calls[k].pc = "stop" /\ calls'[k].pc = "done")
      => /\ calls'[k].result = "ok"
         /\ C18_Gone(calls[k].t)'

C18_UnregisterRemovesTenant == [][C18_Step]_vars

\* unregister_bot has returned for a tenant that was registered with an active
\* chat, whose instance was never started and whose stop failed
C18_Witness ==
  \E k \in CallIds :
    /\ calls[k].op = "unregister" /\ calls[k].pc = "done" /\ calls[k].result = "ok"
    /\ calls[k].bot = PreInst(calls[k].t)
    /\ \E c \in ChatIds : <<calls[k].t, c>> \in db_active
    /\ state[PreInst(calls[k].t)] = "idle"
    /\ ~session_closed[PreInst(calls[k].t)]
    /\ C18_Gone(calls[k].t)

\* C19 (as claimed): a tenant is removed from the tenant map only after its
\* instance has been stopped: while unregister_bot awaits bot.stop() the
\* tenant is still a key of the map.
C19_RemovedOnlyAfterStop ==
  \A k \in CallIds :
    (calls[k].op = "unregister" /\ calls[k].pc = "stop") => calls[k].t \in DOMAIN bots

\* the tenants an unregister_bot call has begun for (it has been called for a
\* registered tenant, or has removed it)
C20_Begun ==
  {calls[k].t : k \in {j \in CallIds : /\ calls[j].op = "unregister"
                                       /\ \/ calls[j].bot # 0
                                          \/ calls[j].pc = "enter" /\ calls[j].t \in DOMAIN bots}}

\* C20 (as claimed): once unregister_bot(t) has begun, the instance of t is
\* handed no further event by its own transport.
C20_Step ==
  \A t \in C20_Begun :
    delivered'[PreInst(t)] = delivered[PreInst(t)]

C20_NoDispatchOnceUnregisterBegun == [][C20_Step]_vars

\* C21 (as claimed): unregister_bot called with a tenant-id that is not a key
\* of the tenant map fails to its caller with an unknown-tenant error.
C21_UnknownTenantFails ==
  \A k \in CallIds :
    (calls[k].op = "unregister" /\ calls[k].pc = "done" /\ calls[k].bot = 0)
      => calls[k].result # "ok"

\* C22 (as claimed): once stop_all has gathered its stop_bot calls, the
\* number of failures it reports is the number of tenants whose stop failed.
C22_FailureCount ==
  sa_pc \in {"close", "done"}
    => sa_failed = Cardinality({t \in DOMAIN sa_tasks :
                                  sa_tasks[t] \in {"stop_failed", "raised"}})

\* C23 (as claimed): after stop_all has completed on a registry in which a
\* tenant failed to stop cleanly, no tenant it stopped is still active: each
\* is out of the tenant map or its instance has left Starting, Running and
\* Error (through the shutdown that emits the shutdown notification).
C23_AllStoppedAfterStopAll ==
  (sa_pc = "done" /\ \E t \in DOMAIN sa_tasks : sa_tasks[t] = "stop_failed")
    => \A t \in DOMAIN sa_tasks :
         t \in DOMAIN bots => state[bots[t]] \notin {"starting", "running", "error"}

\* C24: update_chat_activity(t, c, active) persists the change before it
\* touches the index. The step that persists leaves the index alone; a failed
\* save ends the call with the index and the persisted memberships as they
\* were; the step that ends the call normally follows the save and leaves t in
\* the set of c exactly when active, the other tenants of c and every other
\* chat as they were.
C24_Step ==
  \A k \in CallIds :
    (calls'[k].op = "update" /\ calls'[k] # calls[k])
      => LET t == calls'[k].t
             c == calls'[k].c
         IN IF calls'[k].pc = "done" /\ calls'[k].result = "ok"
            THEN /\ calls[k].pc = "saved"
                 /\ (t \in MappingGet(chat_bot_mapping', c)) <=> calls'[k].active
                 /\ \A t2 \in TenantIds \ {t} :
                      (t2 \in MappingGet(chat_bot_mapping', c))
                        <=> (t2 \in MappingGet(chat_bot_mapping, c))
                 /\ \A c2 \in ChatIds \ {c} :
                      MappingGet(chat_bot_mapping', c2) = MappingGet(chat_bot_mapping, c2)
            ELSE /\ chat_bot_mapping' = chat_bot_mapping
                 /\ calls'[k].pc = "saved" => ((<<t, c>> \in db_active') <=> calls'[k].active)
                 /\ calls'[k].pc = "done" => db_active' = db_active

C24_PersistThenIndex == [][C24_Step]_vars

\* a deactivation has ended normally: the tenant is out of the set of the
\* chat, in which another tenant still is
C24_Witness ==
  \E k \in CallIds :
    /\ calls[k].op = "update" /\ calls[k].pc = "done" /\ calls[k].result = "ok"
    /\ ~calls[k].active
    /\ calls[k].t \notin MappingGet(chat_bot_mapping, calls[k].c)
    /\ MappingGet(chat_bot_mapping, calls[k].c) # {}

\* C25: no chat-id key of the chat-id index maps to an empty set, whatever
\* register_bot, unregister_bot and update_chat_activity calls have completed:
\* deactivating or unregistering the last tenant of a chat deletes its key.
C25_NoEmptySet ==
  \A c \in DOMAIN chat_bot_mapping : chat_bot_mapping[c] # {}

\* a deactivation has completed and has left no key for its chat, and an
\* unregister_bot has completed for a tenant that was the last of a chat
C25_Witness ==
  /\ \E k \in CallIds :
       /\ calls[k].op = "update" /\ calls[k].pc = "done" /\ calls[k].result = "ok"
       /\ ~calls[k].active
       /\ calls[k].c \notin DOMAIN chat_bot_mapping
  /\ \E k \in CallIds :
       /\ calls[k].op = "unregister" /\ calls[k].pc = "done" /\ calls[k].bot # 0
       /\ \E c \in ChatIds :
            <<calls[k].t, c>> \in db_active /\ c \notin DOMAIN chat_bot_mapping

\* C26 (as claimed): every mutation of the chat-id index is made by a call
\* that holds the lock of the registry.
C26_Step ==
  \A k \in CallIds :
    (calls'[k] # calls[k] /\ chat_bot_mapping' # chat_bot_mapping) => m_lock = k

C26_IndexMutatedUnderLock == [][C26_Step]_vars

\* C27 (as claimed): no call holds the lock of the registry while it awaits
\* I/O: the read of a tenant's active chats (register_bot) or the stop of an
\* instance (unregister_bot).
C27_LockNotHeldAcrossIO ==
  \A k \in CallIds : calls[k].pc \in {"load", "stop"} => m_lock # k

Ceil(n, d) == (n + d - 1) \div d

\* the chats handed to the scheduler so far, in the order of their submission
Submitted == [n \in 1..Len(jobs) |-> jobs[n].chat]

C28_Step ==
  LET bs == b_args'.batch_size
      N == Len(b_chats')
  IN
  \* a batch begins: it starts where the batch before it ended, and is the
  \* next batch_size chats, or the chats that are left when fewer are
  /\ (b_pc # "gather" /\ b_pc' = "gather") =>
       /\ b_i' = (IF b_pc = "sleep" THEN b_i + bs ELSE 0)
       /\ b_i' < N
       /\ Len(b_todo') = (IF b_i' + bs <= N THEN bs ELSE N - b_i')
       /\ \A n \in 1..Len(b_todo') : b_todo'[n] = b_chats'[b_i' + n]
  \* the last batch of the tenant is batch number ceil(N / batch_size)
  /\ (b_pc = "sleep" /\ b_pc' \notin {"sleep", "gather"}) =>
       (b_i \div bs) + 1 = Ceil(N, bs)
  \* the chats submitted are the chats of the batches begun, each once
  /\ b_pc' \in {"gather", "sleep"} =>
       Submitted' = SubSeq(b_chats', 1, b_i' + Len(results'))
  /\ (b_pc = "sleep" /\ b_pc' = "done") => Submitted' = b_chats'

\* C28: a broadcast takes the N active chats of a tenant in ceil(N / batch_size)
\* consecutive batches of batch_size chats, the last one of the chats that are
\* left, and every chat is in exactly one batch.
C28_BatchesPartitionChats == [][C28_Step]_vars

\* five chats in batches of two: the third batch is the fifth chat alone
C28_Witness ==
  /\ b_pc = "gather" /\ Len(b_chats) = 5 /\ b_args.batch_size = 2
  /\ b_i = 4 /\ results = <<>> /\ b_todo = <<b_chats[5]>>
  /\ Len(jobs) = 4

\* C29 (as claimed): a submission to the scheduler never waits: when the
\* pending queue is full it fails at once, so the spawn that asyncio.gather has
\* to run next can always take its step.
C29_SubmissionNeverWaits ==
  (b_pc = "gather" /\ b_todo # <<>>) => ENABLED spawn_runs

C30_Step ==
  \* the call is at one of its awaits or has returned: it has not raised
  /\ b_pc' \in {"idle", "get_chats", "gather", "sleep", "done"}
  \* it returns with every bot id of the list taken
  /\ b_pc' = "done" => b_idx' = Len(b_args'.bot_ids)
  \* the bot ids passed over between two tenants, or before the return, are
  \* the unknown ones: every known tenant of the list has its turn
  /\ b_idx' # b_idx =>
       /\ b_idx' > b_idx
       /\ \A n \in (b_idx + 1)..(b_idx' - 1) : b_args'.bot_ids[n] \notin DOMAIN bots
       /\ b_pc' = "done" => b_args'.bot_ids[b_idx'] \notin DOMAIN bots
  \* a send that fails for good ends its own job only: the batch is not left,
  \* the results gathered and the chats still to submit stay, no other job ends
  /\ \A j \in DOMAIN jobs :
       (jobs[j].result # "False" /\ jobs'[j].result = "False") =>
         /\ b_pc' = b_pc /\ b_todo' = b_todo /\ results' = results /\ b_idx' = b_idx
         /\ DOMAIN jobs' = DOMAIN jobs
         /\ \A m \in DOMAIN jobs \ {j} :
              /\ jobs'[m].result = jobs[m].result
              /\ jobs[m].pc = "active" => jobs'[m].pc = "active"

\* C30: broadcast_message does not raise for a chat whose send fails, for an
\* unknown tenant id of its list or for a failure to read a tenant's chats: the
\* failed send ends only its own job, and the call goes on to the other chats,
\* batches and tenants and returns.
C30_BroadcastNeverRaises == [][C30_Step]_vars

\* the chats of tenant 1 could not be read, a send to the first chat of tenant
\* 2 failed for good, the second chat of tenant 2 was served, the call returned
C30_Witness ==
  /\ b_pc = "done" /\ ~sched_closed
  /\ b_args.bot_ids = <<1, 2>> /\ {1, 2} \subseteq DOMAIN bots
  /\ {<<1, 1>>, <<2, 1>>, <<2, 2>>} \subseteq db_active
  /\ b_chats = <<1, 2>>
  /\ Len(jobs) = 2 /\ jobs[1].result = "False" /\ jobs[2].result = "True"

\* the last handler of the list has refused the event of dispatch d, no
\* handler before it having accepted it or raised
C31_LastRefuses(d) ==
  /\ can_handle_returns(d, FALSE)
  /\ disp[d].invoked = 0 /\ disp[d].errors = 0
  /\ disp'[d].pc # "can_handle"

\* dispatch d begins and finds no handler registered
C31_NoHandler(d) ==
  \/ process_message(d) /\ message_handlers = <<>>
  \/ process_callback_query(d) /\ callback_handlers = <<>>

C31_Step ==
  \A d \in DispIds :
    (C31_LastRefuses(d) \/ C31_NoHandler(d))
      => /\ disp'[d] = NoDispatch
         /\ error_notified' = error_notified
         /\ \A e \in DispIds \ {d} : disp'[e] = disp[e]

\* C31: an event that no registered handler accepts is dropped silently: the
\* dispatch returns to the transport with no handle invoked and no error
\* notification emitted.
C31_UnmatchedDroppedSilently == [][C31_Step]_vars

\* every handler but the last has refused the message, the last is being
\* asked, and no error has been notified
C31_Witness ==
  \E d \in DispIds :
    /\ disp[d].pc = "can_handle" /\ disp[d].kind = "message"
    /\ Len(message_handlers) >= 2 /\ disp[d].it = Len(message_handlers)
    /\ disp[d].invoked = 0 /\ disp[d].errors = 0
    /\ ~error_notified

\* this step belongs to stop_bot(t) or to unregister_bot(t)
C32_StepOf(t) ==
  \/ stop_bot_stopped(t) \/ stop_bot_stop_failed(t) \/ stop_bot_raises(t)
  \/ \E k \in CallIds :
       calls'[k] # calls[k] /\ calls'[k].op = "unregister" /\ calls'[k].t = t

\* tenant u is as it was: its entry, its instance, its memberships, its task
C32_Untouched(u) ==
  /\ (u \in DOMAIN bots') = (u \in DOMAIN bots)
  /\ u \in DOMAIN bots =>
       /\ bots'[u] = bots[u]
       /\ state'[bots[u]] = state[bots[u]]
       /\ poll'[bots[u]] = poll[bots[u]]
       /\ delivered'[bots[u]] = delivered[bots[u]]
       /\ session_closed'[bots[u]] = session_closed[bots[u]]
  /\ \A c \in ChatIds :
       (u \in MappingGet(chat_bot_mapping', c)) = (u \in MappingGet(chat_bot_mapping, c))
  /\ (u \in DOMAIN sa_tasks /\ sa_pc' = sa_pc) => sa_tasks'[u] = sa_tasks[u]

C32_Step ==
  \A t \in TenantIds :
    C32_StepOf(t) =>
      /\ \A u \in TenantIds \ {t} : C32_Untouched(u)
      /\ dispVars' = dispVars

\* C32: stopping or unregistering tenant t leaves every other tenant's entry
\* in the tenant map, its instance (lifecycle state, transport, session), its
\* memberships in the chat-id index, and the handlers and dispatches in
\* progress as they were.
C32_StopAffectsOnlyItsTenant == [][C32_Step]_vars

\* tenant 1 has been unregistered and its instance stopped; tenant 2, which
\* shares chat 1 with it, is registered, polling and in the index of chat 1
C32_Witness ==
  /\ \E k \in CallIds :
       /\ calls[k].op = "unregister" /\ calls[k].t = 1 /\ calls[k].pc = "done"
       /\ calls[k].bot = PreInst(1) /\ session_closed[PreInst(1)]
  /\ {<<1, 1>>, <<2, 1>>} \subseteq db_active
  /\ 2 \in DOMAIN bots /\ MappingGet(chat_bot_mapping, 1) = {2}
  /\ state[bots[2]] = "running" /\ poll[bots[2]] = "polling"

\* while dispatch d is suspended in a can_handle or a handle, the list it
\* iterates is the list it started with
C33_Step ==
  \A d \in DispIds :
    (disp[d].pc \in {"can_handle", "handle"} /\ disp'[d] = disp[d])
      => Handlers(disp[d].kind, message_handlers', callback_handlers')
           = Handlers(disp[d].kind, message_handlers, callback_handlers)

\* C33 (as claimed): a dispatch in progress evaluates the handler sequence as
\* it was registered and ordered when the dispatch started: no register,
\* unregister or re-sort changes the sequence under a suspended dispatch.
C33_DispatchIteratesItsSnapshot == [][C33_Step]_vars

\* C34 (as claimed): when a batch has been gathered and the pause before the
\* next batch begins, and when broadcast_message has returned, every send task
\* spawned so far has finished.
C34_NoSendInFlightAfterBatch ==
  b_pc \in {"sleep", "done"} => \A j \in DOMAIN jobs : jobs[j].pc = "done"

\* C35 (as claimed): a stop() that has cancelled a consume loop which is
\* running (in its iteration or feeding an envelope) returns in the end, and
\* the router is then not running and holds no consume task and no queue client.
C35_StopOfRunningLoopReturns ==
  \A r \in RCallIds :
    (rcalls[r].op = "stop" /\ rcalls[r].pc = "await_task" /\ loop_pc \in {"next", "feed"})
      ~> (rcalls[r].pc = "done" /\ ~k_running /\ ~k_task /\ k_consumer = "none")

\* every call made is a register_bot or an update_chat_activity that has
\* returned without an error
C36_Quiescent ==
  \A k \in CallIds :
    \/ calls[k] = NoCall
    \/ /\ calls[k].op \in {"register", "update"}
       /\ calls[k].pc = "done"
       /\ calls[k].result # "error"

\* C36 (as claimed): once the register_bot and update_chat_activity calls in
\* flight have completed, a registered tenant is in the index set of a chat
\* exactly when its membership of that chat is persisted as active.
C36_IndexMatchesPersistence ==
  C36_Quiescent =>
    \A t \in DOMAIN bots, c \in ChatIds :
      (t \in MappingGet(chat_bot_mapping, c)) <=> (<<t, c>> \in db_active)

\* register_bot call k raises because the read of the active chats failed
C37_Step ==
  \A k \in CallIds :
    (calls[k].op = "register" /\ calls[k].pc = "load" /\ calls'[k].result = "error")
      => /\ calls[k].t \notin DOMAIN bots'
         /\ chat_bot_mapping' = chat_bot_mapping

\* C37 (as claimed): a register_bot(t) that fails because the active chats of
\* t could not be read leaves t out of the tenant map and the chat-id index
\* as it was, so that a later register_bot(t) is not a duplicate.
C37_FailedRegisterLeavesNoEntry == [][C37_Step]_vars

\* C38 (as claimed): whenever stop_all has completed, the queue router is not
\* running and the scheduler of the broadcast tasks is closed, whatever the
\* number of registered tenants and whichever of them failed to stop.
C38_StopAllStopsRouterAndScheduler ==
  sa_pc = "done" => (~k_running /\ sched_closed)

\* C39 (as claimed): when the stop() of an instance has returned (here to the
\* unregister_bot that awaited it), the session of the instance is closed,
\* also when deleting the webhook failed.
C39_StopClosesSession ==
  \A k \in CallIds :
    (calls[k].op = "unregister" /\ calls[k].pc = "done" /\ calls[k].bot # 0)
      => session_closed[calls[k].bot]

====
